---------------------------- MODULE Spec2Model ----------------------------
(***************************************************************************)
(* The six tools of the Intervals.icu MCP server (tools/activities.py,     *)
(* tools/events.py), the HTTP gateway they call (utils/functions.py) and   *)
(* the process-wide settings (config/defaults.py).                         *)
(*                                                                         *)
(* One tool invocation runs at a time: a handler runs up to its await of   *)
(* the gateway, the gateway completes with whatever the remote side did,   *)
(* and the handler continues to its next await or to its return. The event *)
(* loop may hold a second invocation, suspended at one of these points     *)
(* (`other`), and switch to it there: see Switch and SpecInterleaved.      *)
(*                                                                         *)
(* Python values are modelled as follows.                                  *)
(*   - Optional[str]: <<>> is None, <<s>> is the string s.                 *)
(*   - text that the code searches or parses (workout names, durations):   *)
(*     a sequence of one-character strings.                                *)
(*   - a YYYY-MM-DD string: [k, ymd] with k = "date" and ymd = <<y,m,d>>   *)
(*     when it is a calendar date, k = "bad" for any other non-empty text, *)
(*     k = "empty" for "" and k = "none" for None.                         *)
(*   - a JSON value: one record shape for lists, mappings and scalars,     *)
(*     see JList, JDict and JScalar.                                       *)
(*   - the outcome of a call: [kind |-> "return", ...] or                  *)
(*     [kind |-> "raise", exc |-> <exception type>].                       *)
(***************************************************************************)
EXTENDS Integers, Sequences, FiniteSets, TLC

VARIABLES
    settings,   \* config.defaults.settings: ATHLETE_ID, API_KEY
    pc,         \* where the invocation is: idle, await1, got1, await2, got2, done
    tool,       \* the tool being run
    args,       \* the arguments of the invocation
    loc,        \* the handler's local variables that live across an await
    requests,   \* the HTTP requests issued by this invocation, in order
    response,   \* what the remote side did with the request in flight
    gw,         \* what the gateway call returned (or raised) to the handler
    result,     \* what the invocation returned (or raised) to the caller
    received,   \* history: what the remote side did with each request, in
                \* order (NotRecorded where the specification keeps none)
    other       \* the invocation the event loop holds suspended meanwhile

vars == <<settings, pc, tool, args, loc, requests, response, gw, result,
          received, other>>

----------------------------------------------------------------------------
(* Bounds of the model.                                                    *)

\* Longest JSON list in a remote payload.
MaxItems == 2
\* Largest value of get_activities' limit argument.
MaxLimit == 2
\* Longest step list handed to post_events.
MaxSteps == 2
\* Most fragments a workout name is assembled from.
MaxFrags == 2

----------------------------------------------------------------------------
(* Text: sequences of one-character strings.                               *)

\* Python: needle in hay
Contains(hay, needle) ==
    \E i \in 1..(Len(hay) - Len(needle) + 1) :
        SubSeq(hay, i, i + Len(needle) - 1) = needle

\* Python: s.endswith(suffix)
EndsWith(s, suffix) ==
    /\ Len(s) >= Len(suffix)
    /\ SubSeq(s, Len(s) - Len(suffix) + 1, Len(s)) = suffix

\* Python: s.replace(old, ""), every non-overlapping occurrence from the left
RECURSIVE Remove(_, _)
Remove(s, old) ==
    IF Len(s) < Len(old) \/ Len(old) = 0 THEN s
    ELSE IF SubSeq(s, 1, Len(old)) = old
         THEN Remove(SubSeq(s, Len(old) + 1, Len(s)), old)
         ELSE <<Head(s)>> \o Remove(Tail(s), old)

Digits == {"0", "1", "2", "3", "4", "5", "6", "7", "8", "9"}

DigitValue(c) ==
    CASE c = "0" -> 0 [] c = "1" -> 1 [] c = "2" -> 2 [] c = "3" -> 3
      [] c = "4" -> 4 [] c = "5" -> 5 [] c = "6" -> 6 [] c = "7" -> 7
      [] c = "8" -> 8 [] c = "9" -> 9

RECURSIVE DecimalValue(_)
DecimalValue(s) ==
    IF s = <<>> THEN 0
    ELSE 10 * DecimalValue(SubSeq(s, 1, Len(s) - 1)) + DigitValue(s[Len(s)])

\* Python: int(s) on text over the model's alphabet (digits and letters):
\* the value of a non-empty digit string, ValueError otherwise.
ParseInt(s) ==
    IF s # <<>> /\ \A i \in 1..Len(s) : s[i] \in Digits
    THEN [ok |-> TRUE, v |-> DecimalValue(s)]
    ELSE [ok |-> FALSE, v |-> 0]

\* Python: float(s) on the same alphabet, which holds no ".", "e" or sign:
\* the texts float() accepts are then the digit strings.
ParseFloat(s) == ParseInt(s)

----------------------------------------------------------------------------
(* Dates: datetime arithmetic on <<year, month, day>>.                     *)

IsLeap(y) == (y % 4 = 0 /\ y % 100 # 0) \/ y % 400 = 0

DaysInMonth(y, m) ==
    IF m = 2 THEN (IF IsLeap(y) THEN 29 ELSE 28)
    ELSE IF m \in {4, 6, 9, 11} THEN 30 ELSE 31

\* The last day of the month before the month of t.
EndOfPrevMonth(t) ==
    IF t[2] > 1 THEN <<t[1], t[2] - 1, DaysInMonth(t[1], t[2] - 1)>>
    ELSE <<t[1] - 1, 12, 31>>

\* The first day of the month after the month of t.
StartOfNextMonth(t) ==
    IF t[2] < 12 THEN <<t[1], t[2] + 1, 1>> ELSE <<t[1] + 1, 1, 1>>

\* date - timedelta(days=n): within the month, or n - day days before the end
\* of the month before.
RECURSIVE MinusDays(_, _)
MinusDays(t, n) ==
    IF n < t[3] THEN <<t[1], t[2], t[3] - n>>
    ELSE MinusDays(EndOfPrevMonth(t), n - t[3])

\* date + timedelta(days=n): within the month, or the rest of n from the
\* first day of the month after.
RECURSIVE PlusDays(_, _)
PlusDays(t, n) ==
    IF t[3] + n <= DaysInMonth(t[1], t[2]) THEN <<t[1], t[2], t[3] + n>>
    ELSE PlusDays(StartOfNextMonth(t), n - (DaysInMonth(t[1], t[2]) - t[3] + 1))

\* Python: a < b on two "%Y-%m-%d" strings of four-digit years
StrLess(a, b) ==
    \/ a[1] < b[1]
    \/ a[1] = b[1] /\ a[2] < b[2]
    \/ a[1] = b[1] /\ a[2] = b[2] /\ a[3] < b[3]

NoYmd == <<0, 0, 0>>
DateNone == [k |-> "none", ymd |-> NoYmd]
DateEmpty == [k |-> "empty", ymd |-> NoYmd]
DateBad == [k |-> "bad", ymd |-> NoYmd]
DateOf(t) == [k |-> "date", ymd |-> t]

\* Python: not start_date
DateFalsy(d) == d.k \in {"none", "empty"}

----------------------------------------------------------------------------
(* JSON values, as response.json() hands them to the handlers.             *)
(*   t       "list", "dict" or "scalar"                                    *)
(*   items   a list's elements; for a mapping, the elements of the first   *)
(*           of its values that is a list (haslist says there is one)      *)
(*   keys    a mapping's keys                                              *)
(*   name    the value under "name": <<>> when the key is absent           *)
(*   message the value under "message": <<>> when the key is absent        *)
(*   status  the value under "status_code": 0 when the key is absent       *)
(*   zones   what is under "zones": "absent", "dict" (a mapping of lists   *)
(*           of mappings) or "other"                                       *)
(*   truthy  a scalar's truth value (0, "", null and false are falsy)      *)

NoFields == [t |-> "scalar", items |-> <<>>, keys |-> {}, haslist |-> FALSE,
             name |-> <<>>, message |-> <<>>, status |-> 0, zones |-> "absent",
             truthy |-> FALSE]

Record(t, fields) == [fields EXCEPT !.t = t]

JList(items) == Record("list", [NoFields EXCEPT !.items = items])
JScalar(truthy) == Record("scalar", [NoFields EXCEPT !.truthy = truthy])
JEmptyDict == Record("dict", NoFields)
\* a mapping with the keys `keys`; `name` is its "name" value when it has one
JDict(keys, name) == Record("dict", [NoFields EXCEPT !.keys = keys, !.name = name])
\* a mapping one of whose values is the list `items`
JContainer(keys, name, items) ==
    Record("dict", [NoFields EXCEPT !.keys = keys, !.name = name,
                                    !.haslist = TRUE, !.items = items])
JWithZones(keys, name, zones) ==
    Record("dict", [NoFields EXCEPT !.keys = keys \cup {"zones"}, !.name = name,
                                    !.zones = zones])

IsList(j) == j.t = "list"
IsDict(j) == j.t = "dict"

\* Python: bool(j)
Truthy(j) ==
    CASE j.t = "list" -> j.items # <<>>
      [] j.t = "dict" -> j.keys # {}
      [] OTHER -> j.truthy

\* Python: j.get("name") is truthy / j.get("name") on a mapping
NameOf(j) == IF "name" \in j.keys THEN j.name ELSE <<>>

----------------------------------------------------------------------------
(* Outcomes of calls.                                                      *)

Return(v) == [kind |-> "return", exc |-> "", val |-> v]
Raise(e) == [kind |-> "raise", exc |-> e, val |-> JScalar(FALSE)]
Pending == [kind |-> "pending", exc |-> "", val |-> JScalar(FALSE)]

----------------------------------------------------------------------------
(* The HTTP gateway: utils/functions.py.                                   *)

\* What the remote side did with a request.
\*   kind   "http": a response arrived, with `status` and a body that is
\*          empty ("empty"), JSON text ("json", parsed value `json`) or
\*          other text ("text");
\*          "transport": httpx.RequestError (refused, DNS, timeout);
\*          "unexpected": any other exception out of the client.
HttpOutcome(status, body, json) ==
    [kind |-> "http", status |-> status, body |-> body, json |-> json]
TransportFailure ==
    [kind |-> "transport", status |-> 0, body |-> "empty", json |-> JScalar(FALSE)]
UnexpectedFailure ==
    [kind |-> "unexpected", status |-> 0, body |-> "empty", json |-> JScalar(FALSE)]
NoOutcome ==
    [kind |-> "none", status |-> 0, body |-> "empty", json |-> JScalar(FALSE)]

\* httpx: Response.raise_for_status() raises HTTPStatusError unless 2xx
IsSuccess(status) == 200 <= status /\ status <= 299

\* The table error_messages, by status code.
TableStatuses == {401, 403, 404, 422, 429, 500, 503}
TableMessage(status) ==
    CASE status = 401 -> "401 Unauthorized: Please check your API key."
      [] status = 403 -> "403 Forbidden: You may not have permission to access this resource."
      [] status = 404 -> "404 Not Found: The requested endpoint or ID doesn't exist."
      [] status = 422 -> "422 Unprocessable Entity: The server couldn't process the request (invalid parameters or unsupported operation)."
      [] status = 429 -> "429 Too Many Requests: Too many requests in a short time period."
      [] status = 500 -> "500 Internal Server Error: The Intervals.icu server encountered an internal error."
      [] status = 503 -> "503 Service Unavailable: The Intervals.icu server might be down or undergoing maintenance."

\* custom_message: the table's entry, or the response's text for a status the
\* table does not hold or that HTTPStatus() rejects (ValueError).
CustomMessage(status) ==
    IF status \in TableStatuses THEN TableMessage(status) ELSE "{error_text}"

\* {"error": True, "status_code": error_code, "message": custom_message}
StatusEnvelope(status) ==
    Record("dict", [NoFields EXCEPT !.keys = {"error", "status_code", "message"},
                                    !.status = status,
                                    !.message = <<CustomMessage(status)>>])
\* {"error": True, "message": f"{prefix}{str(e)}"}
MessageEnvelope(prefix) ==
    Record("dict", [NoFields EXCEPT !.keys = {"error", "message"},
                                    !.message = <<prefix>>])

\* logger.error(...) in utils/functions.py: the module binds no name `logger`
\* (its imports are httpx, HTTPStatus, json, Any, os), so the call raises
\* NameError inside the except clause and the return statement that follows
\* it, which would have returned `envelope`, is not reached.
LoggerError(envelope) == Raise("NameError")

\* The body shared by make_intervals_request and post_intervals_data from the
\* try statement on: the request has been sent and `o` is what came of it.
GatewayResult(o) ==
    IF o.kind = "http"
    THEN IF IsSuccess(o.status)
         THEN IF o.body = "empty" THEN Return(JEmptyDict)
              ELSE IF o.body = "json" THEN Return(o.json)
              \* response.json() raises: except Exception
              ELSE LoggerError(Return(MessageEnvelope("Unexpected error: ")))
         \* except httpx.HTTPStatusError
         ELSE LoggerError(Return(StatusEnvelope(o.status)))
    ELSE IF o.kind = "transport"
         \* except httpx.RequestError
         THEN LoggerError(Return(MessageEnvelope("Request error: ")))
         \* except Exception
         ELSE LoggerError(Return(MessageEnvelope("Unexpected error: ")))

\* make_intervals_request(url, api_key, params)
MakeIntervalsRequestResult(o) == GatewayResult(o)

\* post_intervals_data(data, url, api_key): json.dumps(data) precedes the try
\* statement; the payloads post_events builds are always serialisable.
PostIntervalsDataResult(o) == GatewayResult(o)

----------------------------------------------------------------------------
(* What a tool invocation is given, keeps and gives back.                  *)

NoData == [k |-> "none", has_steps |-> FALSE, steps |-> <<>>]

\* The arguments of a tool call; a tool reads the ones it declares.
NoArgs == [athlete_id |-> <<>>, api_key |-> <<>>, start_date |-> DateNone,
           end_date |-> DateNone, limit |-> 10, include_unnamed |-> FALSE,
           id |-> "", name |-> <<>>, data |-> NoData]

NoFinalData == [built |-> FALSE, start_date_local |-> <<DateNone, "">>,
                category |-> "", name |-> <<>>, description |-> <<>>,
                type |-> "", target |-> "", moving_time |-> 0]

NoParams == [oldest |-> DateNone, newest |-> DateNone, limit |-> <<>>]

NoLoc == [athlete_id_to_use |-> "", api_key_to_use |-> "",
          start_date |-> DateNone, end_date |-> DateNone, api_limit |-> 0,
          activities |-> <<>>, final_data |-> NoFinalData]

\* An HTTP request: the client's get or post with Basic auth ("API_KEY", api_key)
Request(method, url, api_key, params, data) ==
    [method |-> method, url |-> url, api_key |-> api_key, params |-> params,
     data |-> data]

NoResult == [kind |-> "none", exc |-> "", text |-> "", subject |-> <<>>,
             message |-> <<>>, rendered |-> <<>>, value |-> JScalar(FALSE)]

\* return f"...": `text` is the literal with its placeholders, `subject` the
\* identifier and `message` the error message put in, `rendered` the values
\* whose formatted text is concatenated into it.
ReturnText(text, subject, message, rendered) ==
    [NoResult EXCEPT !.kind = "return", !.text = text, !.subject = subject,
                     !.message = message, !.rendered = rendered]
\* return of a JSON value (post_events' created event)
ReturnValue(j) == [NoResult EXCEPT !.kind = "return", !.value = j]
\* an exception leaves the handler
Raised(e) == [NoResult EXCEPT !.kind = "raise", !.exc = e]

ErrNoAthleteId ==
    "Error: No athlete ID provided and no default ATHLETE_ID found in environment variables."
ErrNoApiKey ==
    "Error: No api_key provided and no default API_KEY found in environment variables."

\* OrDefault as `x or default`: an empty string given counts as not given.
OrDefaultWhenFalsy(x, default) == IF x # <<>> /\ x[1] # "" THEN x[1] ELSE default

\* x if x is not None else default
OrDefault(x, default) == IF x # <<>> THEN x[1] ELSE default

\* AthleteIdToUse with the athlete id kept in a module-level name that the
\* last call to give one has set.
AthleteIdToUseShared(a) ==
    IF other.args.athlete_id # <<>> THEN other.args.athlete_id[1]
    ELSE OrDefault(a.athlete_id, settings.ATHLETE_ID)

\* athlete_id_to_use, api_key_to_use
AthleteIdToUse(a) == OrDefault(a.athlete_id, settings.ATHLETE_ID)
ApiKeyToUse(a) == OrDefault(a.api_key, settings.API_KEY)

\* CredentialError without its second check.
CredentialErrorAthleteOnly(a) ==
    IF OrDefault(a.athlete_id, settings.ATHLETE_ID) = "" THEN ErrNoAthleteId ELSE ""

\* The two checks that open the handlers taking an athlete id: the text
\* returned by the first that fails, "" when both pass.
CredentialError(a) ==
    IF AthleteIdToUse(a) = "" THEN ErrNoAthleteId
    ELSE IF ApiKeyToUse(a) = "" THEN ErrNoApiKey
    ELSE ""

\* ApiKeyError that lets an empty key through.
ApiKeyErrorNever(a) == ""

\* The check that opens get_activity_details and get_activity_intervals.
ApiKeyError(a) == IF ApiKeyToUse(a) = "" THEN ErrNoApiKey ELSE ""

\* IsErrorResult that takes no payload for an error.
IsErrorResultNever(j) == FALSE

\* if isinstance(result, dict) and "error" in result
IsErrorResult(j) == IsDict(j) /\ "error" \in j.keys

\* result.get("message", "Unknown error")
ErrorMessageOf(j) == IF "message" \in j.keys THEN j.message ELSE <<"Unknown error">>

\* The handler stops: it returned or raised `r`. What its last await gave
\* stays as it is until the invocation is over.
Finish(r) ==
    /\ pc' = "done"
    /\ result' = r
    /\ UNCHANGED <<gw, response>>

\* The handler awaits the gateway on request `q`, keeping the locals `l`.
Await(next, q, l) ==
    /\ pc' = next
    /\ requests' = Append(requests, q)
    /\ loc' = l
    /\ gw' = Pending
    /\ response' = NoOutcome
    /\ result' = NoResult

\* A handler starts on arguments `a`.
Start(t, a) ==
    /\ pc = "idle"
    /\ tool' = t
    /\ args' = a
    /\ UNCHANGED <<settings, received, other>>

\* A handler resumes with what its await gave.
Resume(t, at) ==
    /\ pc = at
    /\ tool = t
    /\ UNCHANGED <<settings, tool, args, received, other>>

----------------------------------------------------------------------------
(* get_activities: tools/activities.py.                                    *)

\* utils/formatting.format_activity_summary: the text section of one
\* activity, which stands here for the activity it was formatted from.
FormatActivitySummary(activity) == activity

\* timedelta(days=30), timedelta(days=60), timedelta(days=1)
DefaultWindowDays == 30
OlderWindowDays == 60
OlderGapDays == 1

\* Python: seq[:n]
Slice(seq, n) ==
    IF n >= 0 THEN SubSeq(seq, 1, IF n < Len(seq) THEN n ELSE Len(seq))
    ELSE SubSeq(seq, 1, Len(seq) + n)

\* [item for item in value if isinstance(item, dict)]
DictItems(items) == SelectSeq(items, IsDict)

\* any(key in result for key in ["name", "startTime", "distance"])
LooksLikeActivity(j) == j.keys \cap {"name", "startTime", "distance"} # {}

\* "Ensure result is a list of activity dictionaries"
NormalizeActivities(j) ==
    IF IsList(j) THEN DictItems(j.items)
    ELSE IF IsDict(j)
         THEN LET found == IF j.haslist THEN DictItems(j.items) ELSE <<>>
              IN  IF found = <<>> /\ LooksLikeActivity(j) THEN <<j>> ELSE found
         ELSE <<>>

\* activity.get("name") and activity.get("name") != "Unnamed"
IsNamed(activity) ==
    /\ NameOf(activity) # <<>>
    /\ NameOf(activity)[1] # ""
    /\ NameOf(activity)[1] # "Unnamed"

\* [activity for activity in activities if <named>]
NamedOnly(activities) == SelectSeq(activities, IsNamed)

\* MoreActivities without the test on the name.
MoreActivitiesUnfiltered(items) == SelectSeq(items, IsDict)

\* [activity for activity in more_result if isinstance(activity, dict) and <named>]
MoreActivities(items) == SelectSeq(items, LAMBDA x : IsDict(x) /\ IsNamed(x))

\* limit * 3 if not include_unnamed else limit
ApiLimit(a) == IF ~a.include_unnamed THEN a.limit * 3 ELSE a.limit

\* Truncate that cuts nothing.
TruncateNothing(activities, limit) == activities

\* "Limit to requested count"
Truncate(activities, limit) == Slice(activities, limit)

\* From "Limit to requested count" to the return.
ActivitiesText(a, l, activities) ==
    LET shown == Truncate(activities, a.limit)
    IN  IF shown = <<>>
        THEN IF a.include_unnamed
             THEN ReturnText("No valid activities found for athlete {athlete_id_to_use} in the specified date range.",
                             <<l.athlete_id_to_use>>, <<>>, <<>>)
             ELSE ReturnText("No named activities found for athlete {athlete_id_to_use} in the specified date range. Try with include_unnamed=True to see all activities.",
                             <<l.athlete_id_to_use>>, <<>>, <<>>)
        ELSE ReturnText("Activities:\n\n", <<>>, <<>>,
                        [i \in 1..Len(shown) |-> FormatActivitySummary(shown[i])])

\* OlderEndDate without the day of gap: the window ends on the start date.
OlderEndDateOverlapping(start) == start.ymd

\* The window of the additional fetch: older_start_date, older_end_date
OlderStartDate(start) == MinusDays(start.ymd, OlderWindowDays)
OlderEndDate(start) == MinusDays(start.ymd, OlderGapDays)

\* The handler up to its first await; `today` is what datetime.now() gives.
GetActivities(a, today) ==
    /\ Start("get_activities", a)
    /\ IF CredentialError(a) # ""
       THEN /\ Finish(ReturnText(CredentialError(a), <<>>, <<>>, <<>>))
            /\ UNCHANGED <<loc, requests>>
       ELSE LET start == IF DateFalsy(a.start_date)
                         THEN DateOf(MinusDays(today, DefaultWindowDays))
                         ELSE a.start_date
                end == IF DateFalsy(a.end_date) THEN DateOf(today) ELSE a.end_date
                l == [NoLoc EXCEPT !.athlete_id_to_use = AthleteIdToUse(a),
                                   !.api_key_to_use = ApiKeyToUse(a),
                                   !.start_date = start, !.end_date = end,
                                   !.api_limit = ApiLimit(a)]
            IN  Await("await1",
                      Request("GET", <<"athlete", l.athlete_id_to_use, "activities">>,
                              l.api_key_to_use,
                              [oldest |-> start, newest |-> end,
                               limit |-> <<l.api_limit>>],
                              NoFinalData),
                      l)

\* The additional fetch is wanted: fewer named activities than asked for.
NeedsMore(a, activities) == Len(activities) < a.limit

\* From "Check for error differently based on result type" to the second
\* await or the return.
GetActivitiesAfterFetch ==
    /\ Resume("get_activities", "got1")
    /\ IF gw.kind = "raise"
       THEN Finish(Raised(gw.exc)) /\ UNCHANGED <<loc, requests>>
       ELSE
       LET res == gw.val
           all == NormalizeActivities(res)
           activities == IF ~args.include_unnamed THEN NamedOnly(all) ELSE all
       IN  IF IsErrorResult(res)
           THEN /\ Finish(ReturnText("Error fetching activities: {error_message}",
                                     <<>>, ErrorMessageOf(res), <<>>))
                /\ UNCHANGED <<loc, requests>>
           ELSE IF ~Truthy(res)
           THEN /\ Finish(ReturnText("No activities found for athlete {athlete_id_to_use} in the specified date range.",
                                     <<loc.athlete_id_to_use>>, <<>>, <<>>))
                /\ UNCHANGED <<loc, requests>>
           ELSE IF all = <<>>
           THEN /\ Finish(ReturnText("No valid activities found for athlete {athlete_id_to_use} in the specified date range.",
                                     <<loc.athlete_id_to_use>>, <<>>, <<>>))
                /\ UNCHANGED <<loc, requests>>
           ELSE IF ~args.include_unnamed /\ NeedsMore(args, activities)
           THEN \* datetime.fromisoformat(start_date)
                IF loc.start_date.k # "date"
                THEN /\ Finish(Raised("ValueError"))
                     /\ UNCHANGED <<loc, requests>>
                ELSE IF StrLess(OlderStartDate(loc.start_date),
                                OlderEndDate(loc.start_date))
                THEN Await("await2",
                           Request("GET",
                                   <<"athlete", loc.athlete_id_to_use, "activities">>,
                                   loc.api_key_to_use,
                                   [oldest |-> DateOf(OlderStartDate(loc.start_date)),
                                    newest |-> DateOf(OlderEndDate(loc.start_date)),
                                    limit |-> <<loc.api_limit>>],
                                   NoFinalData),
                           [loc EXCEPT !.activities = activities])
                ELSE /\ Finish(ActivitiesText(args, loc, activities))
                     /\ loc' = [loc EXCEPT !.activities = activities]
                     /\ UNCHANGED requests
           ELSE /\ Finish(ActivitiesText(args, loc, activities))
                /\ loc' = [loc EXCEPT !.activities = activities]
                /\ UNCHANGED requests

\* From "if isinstance(more_result, list)" to the return.
GetActivitiesAfterMore ==
    /\ Resume("get_activities", "got2")
    /\ UNCHANGED requests
    /\ IF gw.kind = "raise"
       THEN Finish(Raised(gw.exc)) /\ UNCHANGED loc
       ELSE LET more == IF IsList(gw.val) THEN MoreActivities(gw.val.items) ELSE <<>>
                activities == loc.activities \o more
            IN  /\ Finish(ActivitiesText(args, loc, activities))
                /\ loc' = [loc EXCEPT !.activities = activities]

----------------------------------------------------------------------------
(* get_activity_details, get_activity_intervals: tools/activities.py.      *)

\* utils/formatting.format_intervals: the text of an intervals payload,
\* which stands here for the payload it was formatted from.
FormatIntervals(j) == j

\* The handler up to its await.
GetActivityDetails(a) ==
    /\ Start("get_activity_details", a)
    /\ IF ApiKeyError(a) # ""
       THEN /\ Finish(ReturnText(ApiKeyError(a), <<>>, <<>>, <<>>))
            /\ UNCHANGED <<loc, requests>>
       ELSE Await("await1",
                  Request("GET", <<"activity", a.id>>, ApiKeyToUse(a), NoParams,
                          NoFinalData),
                  [NoLoc EXCEPT !.api_key_to_use = ApiKeyToUse(a)])

\* FirstIfList that keeps a list as it is.
FirstIfListNever(j) == j

\* result[0] if isinstance(result, list) and result else result
FirstIfList(j) == IF IsList(j) /\ j.items # <<>> THEN j.items[1] ELSE j

\* From the error check to the return.
GetActivityDetailsAfterFetch ==
    /\ Resume("get_activity_details", "got1")
    /\ UNCHANGED <<loc, requests>>
    /\ IF gw.kind = "raise" THEN Finish(Raised(gw.exc))
       ELSE LET res == gw.val
                activity_data == FirstIfList(res)
            IN  IF IsErrorResult(res)
                THEN Finish(ReturnText("Error fetching activity details: {error_message}",
                                       <<>>, ErrorMessageOf(res), <<>>))
                ELSE IF ~Truthy(res)
                THEN Finish(ReturnText("No details found for activity {activity_id}.",
                                       <<args.id>>, <<>>, <<>>))
                ELSE IF ~IsDict(activity_data)
                THEN Finish(ReturnText("Invalid activity format for activity {activity_id}.",
                                       <<args.id>>, <<>>, <<>>))
                \* zones.get("power", []) on a value that is no mapping
                ELSE IF "zones" \in activity_data.keys /\ activity_data.zones # "dict"
                THEN Finish(Raised("AttributeError"))
                ELSE Finish(ReturnText("{detailed_view}", <<>>, <<>>,
                                       <<FormatActivitySummary(activity_data)>>))

\* The handler up to its await.
GetActivityIntervals(a) ==
    /\ Start("get_activity_intervals", a)
    /\ IF ApiKeyError(a) # ""
       THEN /\ Finish(ReturnText(ApiKeyError(a), <<>>, <<>>, <<>>))
            /\ UNCHANGED <<loc, requests>>
       ELSE Await("await1",
                  Request("GET", <<"activity", a.id, "intervals">>, ApiKeyToUse(a),
                          NoParams, NoFinalData),
                  [NoLoc EXCEPT !.api_key_to_use = ApiKeyToUse(a)])

\* any(key in result for key in ["icu_intervals", "icu_groups"])
HasIntervalKeys(j) == j.keys \cap {"icu_intervals", "icu_groups"} # {}

\* From the error check to the return.
GetActivityIntervalsAfterFetch ==
    /\ Resume("get_activity_intervals", "got1")
    /\ UNCHANGED <<loc, requests>>
    /\ IF gw.kind = "raise" THEN Finish(Raised(gw.exc))
       ELSE LET res == gw.val
            IN  IF IsErrorResult(res)
                THEN Finish(ReturnText("Error fetching intervals: {error_message}",
                                       <<>>, ErrorMessageOf(res), <<>>))
                ELSE IF ~Truthy(res)
                THEN Finish(ReturnText("No interval data found for activity {activity_id}.",
                                       <<args.id>>, <<>>, <<>>))
                ELSE IF ~IsDict(res) \/ ~HasIntervalKeys(res)
                THEN Finish(ReturnText("No interval data or unrecognized format for activity {activity_id}.",
                                       <<args.id>>, <<>>, <<>>))
                ELSE Finish(ReturnText("{format_intervals}", <<>>, <<>>,
                                       <<FormatIntervals(res)>>))

----------------------------------------------------------------------------
(* get_events, get_event_by_id: tools/events.py.                           *)

\* utils/formatting.format_event_summary and format_event_details: the text
\* of one event, which stands here for the event it was formatted from.
FormatEventSummary(event) == event
FormatEventDetails(event) == event

\* The handler up to its await; `today` is what datetime.now() gives.
GetEvents(a, today) ==
    /\ Start("get_events", a)
    /\ IF CredentialError(a) # ""
       THEN /\ Finish(ReturnText(CredentialError(a), <<>>, <<>>, <<>>))
            /\ UNCHANGED <<loc, requests>>
       ELSE LET start == IF DateFalsy(a.start_date) THEN DateOf(today)
                         ELSE a.start_date
                end == IF DateFalsy(a.end_date)
                       THEN DateOf(PlusDays(today, DefaultWindowDays))
                       ELSE a.end_date
                l == [NoLoc EXCEPT !.athlete_id_to_use = AthleteIdToUse(a),
                                   !.api_key_to_use = ApiKeyToUse(a),
                                   !.start_date = start, !.end_date = end]
            IN  Await("await1",
                      Request("GET", <<"athlete", l.athlete_id_to_use, "events">>,
                              l.api_key_to_use,
                              [oldest |-> start, newest |-> end, limit |-> <<>>],
                              NoFinalData),
                      l)

\* From the error check to the return.
GetEventsAfterFetch ==
    /\ Resume("get_events", "got1")
    /\ UNCHANGED <<loc, requests>>
    /\ IF gw.kind = "raise" THEN Finish(Raised(gw.exc))
       ELSE LET res == gw.val
                events == IF IsList(res) THEN res.items ELSE <<>>
                shown == DictItems(events)
            IN  IF IsErrorResult(res)
                THEN Finish(ReturnText("Error fetching events: {error_message}",
                                       <<>>, ErrorMessageOf(res), <<>>))
                ELSE IF ~Truthy(res) \/ events = <<>>
                THEN Finish(ReturnText("No events found for athlete {athlete_id_to_use} in the specified date range.",
                                       <<loc.athlete_id_to_use>>, <<>>, <<>>))
                ELSE Finish(ReturnText("Events:\n\n", <<>>, <<>>,
                                       [i \in 1..Len(shown) |->
                                            FormatEventSummary(shown[i])]))

\* The handler up to its await.
GetEventById(a) ==
    /\ Start("get_event_by_id", a)
    /\ IF CredentialError(a) # ""
       THEN /\ Finish(ReturnText(CredentialError(a), <<>>, <<>>, <<>>))
            /\ UNCHANGED <<loc, requests>>
       ELSE Await("await1",
                  Request("GET", <<"athlete", AthleteIdToUse(a), "event", a.id>>,
                          ApiKeyToUse(a), NoParams, NoFinalData),
                  [NoLoc EXCEPT !.athlete_id_to_use = AthleteIdToUse(a),
                                !.api_key_to_use = ApiKeyToUse(a)])

\* From the error check to the return.
GetEventByIdAfterFetch ==
    /\ Resume("get_event_by_id", "got1")
    /\ UNCHANGED <<loc, requests>>
    /\ IF gw.kind = "raise" THEN Finish(Raised(gw.exc))
       ELSE LET res == gw.val
            IN  IF IsErrorResult(res)
                THEN Finish(ReturnText("Error fetching event details: {error_message}",
                                       <<>>, ErrorMessageOf(res), <<>>))
                ELSE IF ~Truthy(res)
                THEN Finish(ReturnText("No details found for event {event_id}.",
                                       <<args.id>>, <<>>, <<>>))
                ELSE IF ~IsDict(res)
                THEN Finish(ReturnText("Invalid event format for event {event_id}.",
                                       <<args.id>>, <<>>, <<>>))
                ELSE Finish(ReturnText("{format_event_details}", <<>>, <<>>,
                                       <<FormatEventDetails(res)>>))

----------------------------------------------------------------------------
(* post_events, convert_duration: tools/events.py.                         *)

TextKm == <<"k", "m">>
TextM == <<"m">>
TextS == <<"s">>
TextBike == <<"B", "i", "k", "e">>
TextRun == <<"R", "u", "n">>
TextPower == <<"P", "o", "w", "e", "r">>
TextPace == <<"p", "a", "c", "e">>
TextHr == <<"h", "r">>

\* ConvertDuration that takes minutes for seconds.
ConvertDurationMinutesAsSeconds(duration) ==
    IF Contains(duration, TextKm)
    THEN LET p == ParseFloat(Remove(duration, TextKm))
         IN  [ok |-> p.ok, v |-> p.v * 1000]
    ELSE IF Contains(duration, TextM)
    THEN ParseInt(Remove(duration, TextM))
    ELSE IF Contains(duration, TextS)
    THEN ParseInt(Remove(duration, TextS))
    ELSE ParseInt(duration)

\* convert_duration(duration): [ok |-> TRUE, v |-> the number], or
\* [ok |-> FALSE, ...] when int() or float() raises ValueError
ConvertDuration(duration) ==
    IF Contains(duration, TextKm)
    THEN LET p == ParseFloat(Remove(duration, TextKm))
         IN  [ok |-> p.ok, v |-> p.v * 1000]
    ELSE IF Contains(duration, TextM) /\ ~EndsWith(duration, TextKm)
    THEN LET p == ParseInt(Remove(duration, TextM))
         IN  [ok |-> p.ok, v |-> p.v * 60]
    ELSE IF Contains(duration, TextS)
    THEN ParseInt(Remove(duration, TextS))
    ELSE ParseInt(duration)

\* sum(convert_duration(step["duration"]) for step in expanded_steps)
RECURSIVE MovingTime(_)
MovingTime(steps) ==
    IF steps = <<>> THEN [ok |-> TRUE, v |-> 0]
    ELSE LET h == ConvertDuration(steps[1].duration)
             t == MovingTime(Tail(steps))
         IN  [ok |-> h.ok /\ t.ok, v |-> h.v + t.v]

\* EventType that looks for "Run" before "Bike".
EventTypeRunFirst(name) ==
    IF Contains(name, TextRun) THEN "Run"
    ELSE IF Contains(name, TextBike) THEN "Ride"
    ELSE "Swim"

\* "Ride" if "Bike" in name else "Run" if "Run" in name else "Swim"
EventType(name) ==
    IF Contains(name, TextBike) THEN "Ride"
    ELSE IF Contains(name, TextRun) THEN "Run"
    ELSE "Swim"

\* "POWER" if "Power" in name else "PACE" if "pace" in name else "HR" if "hr" in name else "AUTO"
EventTarget(name) ==
    IF Contains(name, TextPower) THEN "POWER"
    ELSE IF Contains(name, TextPace) THEN "PACE"
    ELSE IF Contains(name, TextHr) THEN "HR"
    ELSE "AUTO"

\* description_lines: f"- {step['duration']} {step['power']}", with
\* f" ({step['cadence']})" appended when the step has a cadence
DescriptionLines(steps) ==
    [i \in 1..Len(steps) |->
        [duration |-> steps[i].duration, power |-> steps[i].power,
         cadence |-> steps[i].cadence]]

\* final_data
FinalData(start, name, steps) ==
    [built |-> TRUE,
     start_date_local |-> <<start, "T00:00:00">>,
     category |-> "WORKOUT",
     name |-> <<name>>,
     description |-> DescriptionLines(steps),
     type |-> EventType(name),
     target |-> EventTarget(name),
     moving_time |-> MovingTime(steps).v]

\* The exception raised while final_data is built, "" when there is none.
BuildError(a) ==
    \* data["steps"]
    IF a.data.k = "none" THEN "TypeError"
    ELSE IF ~a.data.has_steps THEN "KeyError"
    \* "Bike" in name
    ELSE IF a.name = <<>> THEN "TypeError"
    \* int(...), float(...) in convert_duration
    ELSE IF ~MovingTime(a.data.steps).ok THEN "ValueError"
    ELSE ""

\* The handler up to its await; `today` is what datetime.now() gives.
PostEvents(a, today) ==
    /\ Start("post_events", a)
    /\ IF CredentialError(a) # ""
       THEN /\ Finish(ReturnText(CredentialError(a), <<>>, <<>>, <<>>))
            /\ UNCHANGED <<loc, requests>>
       ELSE IF BuildError(a) # ""
       THEN /\ Finish(Raised(BuildError(a)))
            /\ UNCHANGED <<loc, requests>>
       ELSE LET start == IF DateFalsy(a.start_date) THEN DateOf(today)
                         ELSE a.start_date
                l == [NoLoc EXCEPT !.athlete_id_to_use = AthleteIdToUse(a),
                                   !.api_key_to_use = ApiKeyToUse(a),
                                   !.start_date = start,
                                   !.final_data =
                                       FinalData(start, a.name[1], a.data.steps)]
            IN  Await("await1",
                      Request("POST", <<"athlete", l.athlete_id_to_use, "events">>,
                              l.api_key_to_use, NoParams, l.final_data),
                      l)

\* f"{athlete_id}" of the argument as given: "None" when it was not given
AthleteIdText(a) == IF a.athlete_id = <<>> THEN <<"None">> ELSE a.athlete_id

\* From the error check to the return.
PostEventsAfterSend ==
    /\ Resume("post_events", "got1")
    /\ UNCHANGED <<loc, requests>>
    /\ IF gw.kind = "raise" THEN Finish(Raised(gw.exc))
       ELSE LET res == gw.val
            IN  IF IsErrorResult(res)
                THEN Finish(ReturnText("Error fetching events: {error_message} data used:{final_data}",
                                       <<>>, ErrorMessageOf(res), <<>>))
                ELSE IF ~Truthy(res)
                THEN Finish(ReturnText("No events posted for athlete {athlete_id}.",
                                       AthleteIdText(args), <<>>, <<>>))
                ELSE IF ~IsDict(res)
                THEN Finish(ReturnText("format error, verify intervals for correct event at {start_date}",
                                       <<>>, <<>>, <<>>))
                ELSE Finish(ReturnValue(res))

----------------------------------------------------------------------------
(* The gateway completes, and the invocation ends.                         *)

\* The history of an invocation that starts: none kept, or nothing yet.
NotRecorded == <<NoOutcome>>
Recorded(history, o) ==
    IF history = NotRecorded THEN history ELSE Append(history, o)

\* make_intervals_request returns (or raises) to the handler awaiting it.
MakeIntervalsRequest(o) ==
    /\ pc \in {"await1", "await2"}
    /\ requests[Len(requests)].method = "GET"
    /\ pc' = IF pc = "await1" THEN "got1" ELSE "got2"
    /\ response' = o
    /\ received' = Recorded(received, o)
    /\ gw' = MakeIntervalsRequestResult(o)
    /\ UNCHANGED <<settings, tool, args, loc, requests, result, other>>

\* post_intervals_data returns (or raises) to the handler awaiting it.
PostIntervalsData(o) ==
    /\ pc = "await1"
    /\ requests[Len(requests)].method = "POST"
    /\ pc' = "got1"
    /\ response' = o
    /\ received' = Recorded(received, o)
    /\ gw' = PostIntervalsDataResult(o)
    /\ UNCHANGED <<settings, tool, args, loc, requests, result, other>>

\* The caller has the result; the server is ready for the next invocation.
Idle ==
    /\ pc = "idle" /\ tool = "" /\ args = NoArgs /\ loc = NoLoc
    /\ requests = <<>> /\ response = NoOutcome /\ gw = Pending
    /\ result = NoResult

Done ==
    /\ pc = "done"
    /\ pc' = "idle" /\ tool' = "" /\ args' = NoArgs /\ loc' = NoLoc
    /\ requests' = <<>> /\ response' = NoOutcome /\ gw' = Pending
    /\ result' = NoResult
    /\ received' = IF received = NotRecorded THEN NotRecorded ELSE <<>>
    /\ UNCHANGED <<settings, other>>

\* An invocation as the event loop holds it: the coroutine's position and
\* locals, and what it has been given so far.
Invocation(p, t, a, l, q, r, g, res, rcv) ==
    [pc |-> p, tool |-> t, args |-> a, loc |-> l, requests |-> q,
     response |-> r, gw |-> g, result |-> res, received |-> rcv]

\* No invocation: the slot is free.
NoInvocation ==
    Invocation("idle", "", NoArgs, NoLoc, <<>>, NoOutcome, Pending, NoResult, <<>>)

\* The invocation that is running.
Running ==
    Invocation(pc, tool, args, loc, requests, response, gw, result, received)

\* The event loop suspends the running invocation where it stands (before
\* its start, at an await, or after its return) and runs the other one.
Switch ==
    /\ other # Running
    /\ other' = Running
    /\ pc' = other.pc /\ tool' = other.tool /\ args' = other.args
    /\ loc' = other.loc /\ requests' = other.requests
    /\ response' = other.response /\ gw' = other.gw
    /\ result' = other.result /\ received' = other.received
    /\ UNCHANGED settings

----------------------------------------------------------------------------
(* The inputs explored: settings, arguments, clock readings and what the   *)
(* remote side answers.                                                    *)

\* All sequences over `set` of length at most n.
RECURSIVE SeqsUpTo(_, _)
SeqsUpTo(set, n) ==
    IF n = 0 THEN {<<>>}
    ELSE LET shorter == SeqsUpTo(set, n - 1)
         IN  shorter \cup {Append(q, x) : q \in shorter, x \in set}

\* All concatenations of at most n of the texts in `set`.
RECURSIVE ConcatsUpTo(_, _)
ConcatsUpTo(set, n) ==
    IF n = 0 THEN {<<>>}
    ELSE LET shorter == ConcatsUpTo(set, n - 1)
         IN  shorter \cup {q \o x : q \in shorter, x \in set}

SettingsSet ==
    [ATHLETE_ID : {"", "i100"}, API_KEY : {"", "key100"},
     BASE_URL : {"https://intervals.icu/api/v1"}]

AthleteIdArgs == {<<>>, <<"">>, <<"i200">>}
ApiKeyArgs == {<<>>, <<"">>, <<"key200">>}

\* What datetime.now() may give.
Clock == {<<2024, 12, 31>>, <<2025, 3, 15>>}

StartDates == {DateNone, DateEmpty, DateBad, DateOf(<<2024, 3, 1>>),
               DateOf(<<2025, 1, 15>>)}
EndDates == {DateNone, DateOf(<<2025, 3, 31>>)}

\* Every combination of given and missing credentials, other arguments fixed.
CredentialArgs(base) ==
    {[base EXCEPT !.athlete_id = i, !.api_key = k] :
        i \in AthleteIdArgs, k \in ApiKeyArgs}

\* The API key given or missing, for the tools that take no athlete id.
ApiKeyOnlyArgs(base) == {[base EXCEPT !.api_key = k] : k \in ApiKeyArgs}

\* get_activities: every combination of credentials; every start and end
\* date; every limit with and without unnamed activities.
GetActivitiesArgs ==
    CredentialArgs([NoArgs EXCEPT !.limit = 1])
    \cup {[NoArgs EXCEPT !.start_date = s, !.end_date = e, !.limit = 1] :
            s \in StartDates, e \in EndDates}
    \cup {[NoArgs EXCEPT !.start_date = DateOf(<<2024, 3, 1>>),
                         !.end_date = DateOf(<<2024, 3, 31>>),
                         !.limit = n, !.include_unnamed = u] :
            n \in 0..MaxLimit, u \in BOOLEAN}

ByIdArgs == [NoArgs EXCEPT !.id = "a1"]

GetEventsArgs ==
    CredentialArgs(NoArgs)
    \cup {[NoArgs EXCEPT !.start_date = s, !.end_date = e] :
            s \in {DateNone, DateOf(<<2025, 1, 15>>)}, e \in EndDates}

\* Workout names: the two of the documentation and every concatenation of at
\* most MaxFrags fragments.
NameBikeVo2Max ==
    <<"B", "i", "k", "e", " ", "-", " ", "V", "O", "2", " ", "M", "a", "x">>
NameRunPaceWork ==
    <<"R", "u", "n", " ", "-", " ", "p", "a", "c", "e", " ", "w", "o", "r", "k">>
NameFragments ==
    {TextBike, TextRun, TextPower, TextPace, TextHr, <<" ">>,
     <<"b", "i", "k", "e">>, <<"S", "w", "i", "m">>}
Names == {NameBikeVo2Max, NameRunPaceWork} \cup ConcatsUpTo(NameFragments, MaxFrags)

\* Durations: unit-tagged and bare numbers, and texts that are neither.
WellFormedDurations ==
    {<<"1", "5", "m">>, <<"3", "m">>, <<"3", "0", "s">>, <<"1", "k", "m">>,
     <<"4", "5">>}
OtherDurations == {<<"1", "m", "3", "0", "s">>, <<"x">>, <<"m", "5">>}
Durations == WellFormedDurations \cup OtherDurations

Step(duration, cadence) ==
    [duration |-> duration, power |-> "80%", cadence |-> cadence]
Steps ==
    {Step(d, <<>>) : d \in Durations} \cup {Step(<<"1", "0", "m">>, <<"90rpm">>)}

DataOf(steps) == [k |-> "dict", has_steps |-> TRUE, steps |-> steps]
DataWithoutSteps == [k |-> "dict", has_steps |-> FALSE, steps |-> <<>>]
TwoSteps == <<Step(<<"1", "5", "m">>, <<>>), Step(<<"3", "m">>, <<>>)>>

PostEventsArgs ==
    CredentialArgs([NoArgs EXCEPT !.name = <<NameBikeVo2Max>>,
                                  !.data = DataOf(TwoSteps)])
    \cup {[NoArgs EXCEPT !.name = <<n>>, !.data = DataOf(TwoSteps)] : n \in Names}
    \cup {[NoArgs EXCEPT !.name = <<NameRunPaceWork>>, !.data = DataOf(q)] :
            q \in SeqsUpTo(Steps, MaxSteps)}
    \cup {[NoArgs EXCEPT !.name = n, !.data = d, !.start_date = s] :
            n \in {<<>>, <<NameRunPaceWork>>},
            d \in {NoData, DataWithoutSteps, DataOf(TwoSteps)},
            s \in {DateNone, DateOf(<<2025, 1, 14>>)}}

\* Elements of a payload list: mappings without a name, with an empty name,
\* named "Unnamed", with a real name, and a value that is no mapping.
PayloadItems ==
    {JDict({"id"}, <<>>), JDict({"id", "name"}, <<"">>),
     JDict({"id", "name"}, <<"Unnamed">>), JDict({"id", "name"}, <<"Morning Ride">>),
     JDict({"id", "name"}, <<"Evening Run">>), JScalar(TRUE)}
PayloadLists == SeqsUpTo(PayloadItems, MaxItems)

\* The JSON values a 2xx response to a GET may carry.
GetPayloads ==
    {JList(q) : q \in PayloadLists}
    \cup {JContainer({"activities"}, <<>>, q) :
            q \in SeqsUpTo(PayloadItems, MaxItems - 1)}
    \cup {JContainer({"activities", "name"}, <<"Block">>, q) :
            q \in {<<>>, <<JScalar(TRUE)>>}}
    \cup {JDict({"id", "name"}, <<"Morning Ride">>), JDict({"id", "name"}, <<"Unnamed">>),
          JDict({"distance"}, <<>>), JDict({"id"}, <<>>), JEmptyDict,
          JDict({"error"}, <<>>), JDict({"error", "message"}, <<>>),
          JDict({"icu_intervals"}, <<>>), JDict({"icu_groups", "id"}, <<>>),
          JWithZones({"id", "name"}, <<"Morning Ride">>, "dict"),
          JWithZones({"id"}, <<>>, "other"),
          JList(<<JDict({"icu_intervals"}, <<>>)>>),
          JList(<<JWithZones({"id"}, <<>>, "other")>>),
          JScalar(TRUE), JScalar(FALSE)}

\* The JSON values a 2xx response to the POST may carry.
PostPayloads ==
    {JDict({"id", "category", "name"}, <<"Created">>), JEmptyDict,
     JDict({"error"}, <<>>), JList(<<>>),
     JList(<<JDict({"id", "category", "name"}, <<"Created">>)>>), JScalar(TRUE)}

\* Statuses outside 2xx: in the message table, known to HTTPStatus but not in
\* the table, unknown to HTTPStatus; and a redirect.
ErrorStatuses == {401, 404, 418, 599, 302}

Outcomes(payloads) ==
    {HttpOutcome(200, "json", j) : j \in payloads}
    \cup {HttpOutcome(204, "empty", JScalar(FALSE)),
          HttpOutcome(200, "text", JScalar(FALSE)),
          TransportFailure, UnexpectedFailure}
    \cup {HttpOutcome(st, "text", JScalar(FALSE)) : st \in ErrorStatuses}

GetOutcomes == Outcomes(GetPayloads)
PostOutcomes == Outcomes(PostPayloads)

----------------------------------------------------------------------------
(* The specification.                                                      *)

Init ==
    /\ settings \in SettingsSet
    /\ Idle /\ received = NotRecorded
    /\ other = NoInvocation

Next ==
    \/ \E a \in GetActivitiesArgs, today \in Clock : GetActivities(a, today)
    \/ GetActivitiesAfterFetch
    \/ GetActivitiesAfterMore
    \/ \E a \in ApiKeyOnlyArgs(ByIdArgs) : GetActivityDetails(a)
    \/ GetActivityDetailsAfterFetch
    \/ \E a \in ApiKeyOnlyArgs(ByIdArgs) : GetActivityIntervals(a)
    \/ GetActivityIntervalsAfterFetch
    \/ \E a \in GetEventsArgs, today \in Clock : GetEvents(a, today)
    \/ GetEventsAfterFetch
    \/ \E a \in CredentialArgs(ByIdArgs) : GetEventById(a)
    \/ GetEventByIdAfterFetch
    \/ \E a \in PostEventsArgs, today \in Clock : PostEvents(a, today)
    \/ PostEventsAfterSend
    \/ \E o \in GetOutcomes : MakeIntervalsRequest(o)
    \/ \E o \in PostOutcomes : PostIntervalsData(o)
    \/ Done

Spec == Init /\ [][Next]_vars

----------------------------------------------------------------------------
(* Two invocations on the event loop. asyncio runs one coroutine at a time *)
(* and changes over only where the running one awaits, so every            *)
(* interleaving of two invocations is a run of the handlers' steps with    *)
(* Switch between them. Each invocation keeps the history of what its own  *)
(* requests were answered with.                                            *)

ActivitiesCall ==
    [NoArgs EXCEPT !.start_date = DateOf(<<2024, 3, 1>>),
                   !.end_date = DateOf(<<2024, 3, 31>>), !.limit = MaxLimit]
EventCall ==
    [NoArgs EXCEPT !.name = <<NameBikeVo2Max>>, !.data = DataOf(TwoSteps)]

\* The calls made: with the athlete id left to the configuration and with
\* one of the call's own; post_events also without its data.
InterleavedActivitiesArgs ==
    {[ActivitiesCall EXCEPT !.athlete_id = i] : i \in {<<>>, <<"i200">>}}
InterleavedByIdArgs == {[ByIdArgs EXCEPT !.api_key = k] : k \in {<<>>, <<"">>}}
InterleavedEventsArgs == {[NoArgs EXCEPT !.athlete_id = i] : i \in {<<>>, <<"i200">>}}
InterleavedPostArgs ==
    {[EventCall EXCEPT !.athlete_id = i] : i \in {<<>>, <<"i200">>}}
    \cup {[EventCall EXCEPT !.data = NoData]}

\* What the remote side answers: a list of one named activity, an empty
\* mapping, a mapping with an "error" key, a mapping of interval data; a
\* status outside 2xx; no answer at all.
InterleavedOutcomes ==
    {HttpOutcome(200, "json", j) :
        j \in {JList(<<JDict({"id", "name"}, <<"Morning Ride">>)>>), JEmptyDict,
               JDict({"error", "message"}, <<>>), JDict({"icu_intervals"}, <<>>)}}
    \cup {HttpOutcome(500, "text", JScalar(FALSE)), TransportFailure}

InitInterleaved ==
    /\ settings \in SettingsSet
    /\ Idle /\ received = <<>>
    /\ other = NoInvocation

NextInterleaved ==
    \/ \E a \in InterleavedActivitiesArgs, today \in Clock : GetActivities(a, today)
    \/ GetActivitiesAfterFetch
    \/ GetActivitiesAfterMore
    \/ \E a \in InterleavedByIdArgs : GetActivityDetails(a)
    \/ GetActivityDetailsAfterFetch
    \/ \E a \in InterleavedByIdArgs : GetActivityIntervals(a)
    \/ GetActivityIntervalsAfterFetch
    \/ \E a \in InterleavedEventsArgs, today \in Clock : GetEvents(a, today)
    \/ GetEventsAfterFetch
    \/ \E a \in InterleavedEventsArgs : GetEventById([a EXCEPT !.id = "a1"])
    \/ GetEventByIdAfterFetch
    \/ \E a \in InterleavedPostArgs, today \in Clock : PostEvents(a, today)
    \/ PostEventsAfterSend
    \/ \E o \in InterleavedOutcomes : MakeIntervalsRequest(o)
    \/ \E o \in InterleavedOutcomes : PostIntervalsData(o)
    \/ Done
    \/ Switch

SpecInterleaved == InitInterleaved /\ [][NextInterleaved]_vars

----------------------------------------------------------------------------
(* The claims.                                                             *)

\* The tools whose handlers take an athlete id.
TakesAthleteId(t) ==
    t \in {"get_activities", "get_events", "get_event_by_id", "post_events"}

\* The credential a call is to use: the one given, the default when none is.
GivenElseDefault(given, default) == IF given = <<>> THEN default ELSE given[1]

AthleteMissing ==
    /\ TakesAthleteId(tool)
    /\ GivenElseDefault(args.athlete_id, settings.ATHLETE_ID) = ""
ApiKeyMissing == GivenElseDefault(args.api_key, settings.API_KEY) = ""

\* C1: every invocation of every tool ends by returning a value; no
\* exception leaves a tool handler.
C1_NoExceptionLeavesATool == pc = "done" => result.kind = "return"

\* C2: when the athlete id a handler resolves (for the tools that take one)
\* or the API key it resolves is empty, the invocation ends with the error
\* text naming the missing field and has issued no HTTP request.
C2_MissingCredentialStopsBeforeAnyRequest ==
    (pc # "idle" /\ (AthleteMissing \/ ApiKeyMissing)) =>
        /\ pc = "done"
        /\ requests = <<>>
        /\ result.kind = "return"
        /\ result.text = IF AthleteMissing THEN ErrNoAthleteId ELSE ErrNoApiKey

C2_Witness ==
    /\ pc = "done" /\ tool = "post_events"
    /\ args.athlete_id = <<"i200">>
    /\ args.api_key = <<"">> /\ settings.API_KEY = "key100"
    /\ result.text = ErrNoApiKey
    /\ requests = <<>>

\* C3: every request carries the credentials given in the call where they
\* are given and the configured defaults where they are not; a call that
\* gives none while a non-empty default is configured is not rejected for
\* that credential.
C3_RequestUsesGivenElseDefault ==
    /\ \A i \in 1..Len(requests) :
        /\ requests[i].api_key = GivenElseDefault(args.api_key, settings.API_KEY)
        /\ TakesAthleteId(tool) =>
             requests[i].url[2] =
                 GivenElseDefault(args.athlete_id, settings.ATHLETE_ID)
    /\ (pc # "idle" /\ args.api_key = <<>> /\ settings.API_KEY # "") =>
           result.text # ErrNoApiKey
    /\ (pc # "idle" /\ TakesAthleteId(tool) /\ args.athlete_id = <<>>
            /\ settings.ATHLETE_ID # "") =>
           result.text # ErrNoAthleteId
    /\ (pc # "idle" /\ ~AthleteMissing /\ ~ApiKeyMissing) =>
           (requests # <<>> \/ result.kind = "raise")

C3_Witness ==
    /\ pc = "await1" /\ tool = "get_event_by_id"
    /\ args.api_key = <<"key200">> /\ settings.API_KEY = "key100"
    /\ args.athlete_id = <<>> /\ settings.ATHLETE_ID = "i100"
    /\ requests[1].api_key = "key200"
    /\ requests[1].url[2] = "i100"

\* Neither an API key given in the call nor a default one.
NoApiKeyAtAll == args.api_key \in {<<>>, <<"">>} /\ settings.API_KEY = ""

\* C4 as claimed: with no API key given and none configured, every tool
\* returns the text "Error: No api_key provided ...", whether or not an
\* athlete id is there.
C4_NoApiKeyAlwaysReported ==
    (pc = "done" /\ NoApiKeyAtAll) => result.text = ErrNoApiKey

\* C4 as amended: with no API key given and none configured, a tool returns
\* the text "Error: No api_key provided ..." unless it takes an athlete id
\* and that is missing too, in which case it returns the text
\* "Error: No athlete ID provided ...".
C4_NoApiKeyReportedAfterAthleteId ==
    (pc = "done" /\ NoApiKeyAtAll) =>
        /\ result.kind = "return"
        /\ result.text = IF AthleteMissing THEN ErrNoAthleteId ELSE ErrNoApiKey

C4_Witness ==
    /\ pc = "done" /\ tool = "get_activity_details"
    /\ NoApiKeyAtAll
    /\ settings.ATHLETE_ID = ""
    /\ result.text = ErrNoApiKey

\* C5: every call of the gateway returns the parsed JSON value (an empty
\* mapping for a 2xx response with an empty body) or the error envelope,
\* which carries status_code exactly when a response with a status outside
\* 2xx arrived.
C5_GatewayReturnsValueOrEnvelope ==
    pc \in {"got1", "got2"} =>
        /\ gw.kind = "return"
        /\ IF response.kind = "http" /\ response.status \in 200..299
           THEN \/ response.body = "json" /\ gw.val = response.json
                \/ response.body = "empty" /\ gw.val = JEmptyDict
                \/ response.body = "text"
                     /\ gw.val.keys = {"error", "message"}
           ELSE IF response.kind = "http"
           THEN /\ gw.val.keys = {"error", "message", "status_code"}
                /\ gw.val.status = response.status
           ELSE gw.val.keys = {"error", "message"}

\* An activity as C6 wants it: a name that is there, not empty, not "Unnamed".
HasRealName(activity) ==
    /\ "name" \in activity.keys
    /\ activity.name # <<>>
    /\ activity.name[1] \notin {"", "Unnamed"}

\* C6: with include_unnamed=false, no activity rendered by get_activities
\* has a missing name, an empty name or the name "Unnamed", whatever the
\* first and the supplementary fetch returned.
C6_NoUnnamedActivityRendered ==
    (pc = "done" /\ tool = "get_activities" /\ ~args.include_unnamed) =>
        \A i \in 1..Len(result.rendered) : HasRealName(result.rendered[i])

C6_Witness ==
    /\ pc = "done" /\ tool = "get_activities" /\ ~args.include_unnamed
    /\ Len(requests) = 2
    /\ response.json =
           JList(<<JDict({"id", "name"}, <<"Unnamed">>),
                   JDict({"id", "name"}, <<"Evening Run">>)>>)
    /\ result.rendered = <<JDict({"id", "name"}, <<"Evening Run">>)>>

\* The outbound payloads of post_events.
PostedData == {requests[i].data : i \in {j \in 1..Len(requests) :
                                            requests[j].method = "POST"}}

\* C7: the payload post_events sends has type "Ride" when the name contains
\* "Bike", else "Run" when it contains "Run", else "Swim"; target "POWER"
\* when the name contains "Power", else "PACE" when it contains "pace", else
\* "HR" when it contains "hr", else "AUTO"; and category "WORKOUT".
C7_TypeAndTargetFromName ==
    \A d \in PostedData :
        LET name == d.name[1]
            bike == Contains(name, TextBike)
            run == Contains(name, TextRun)
            power == Contains(name, TextPower)
            pace == Contains(name, TextPace)
            hr == Contains(name, TextHr)
        IN  /\ d.name = args.name
            /\ d.category = "WORKOUT"
            /\ bike => d.type = "Ride"
            /\ (~bike /\ run) => d.type = "Run"
            /\ (~bike /\ ~run) => d.type = "Swim"
            /\ power => d.target = "POWER"
            /\ (~power /\ pace) => d.target = "PACE"
            /\ (~power /\ ~pace /\ hr) => d.target = "HR"
            /\ (~power /\ ~pace /\ ~hr) => d.target = "AUTO"
            /\ name = NameBikeVo2Max => d.type = "Ride"
            /\ name = NameRunPaceWork => (d.type = "Run" /\ d.target = "PACE")

C7_Witness ==
    /\ pc = "await1" /\ tool = "post_events"
    /\ args.name = <<TextRun \o TextBike>>
    /\ requests[1].data.type = "Ride"
    /\ requests[1].data.target = "AUTO"

\* A duration in the documented format: digits, then "km", "m", "s" or nothing.
IsNumber(text) == text # <<>> /\ \A i \in 1..Len(text) : text[i] \in Digits
WithoutLast(text, n) == SubSeq(text, 1, Len(text) - n)
UnitTagged(duration) ==
    \/ IsNumber(duration)
    \/ EndsWith(duration, TextKm) /\ IsNumber(WithoutLast(duration, 2))
    \/ EndsWith(duration, TextM) /\ IsNumber(WithoutLast(duration, 1))
    \/ EndsWith(duration, TextS) /\ IsNumber(WithoutLast(duration, 1))

\* What C8 says a duration converts to.
Converted(duration) ==
    IF EndsWith(duration, TextKm)
    THEN DecimalValue(WithoutLast(duration, 2)) * 1000
    ELSE IF EndsWith(duration, TextM)
    THEN DecimalValue(WithoutLast(duration, 1)) * 60
    ELSE IF EndsWith(duration, TextS)
    THEN DecimalValue(WithoutLast(duration, 1))
    ELSE DecimalValue(duration)

RECURSIVE SumConverted(_)
SumConverted(steps) ==
    IF steps = <<>> THEN 0
    ELSE Converted(steps[1].duration) + SumConverted(Tail(steps))

AllUnitTagged(steps) == \A i \in 1..Len(steps) : UnitTagged(steps[i].duration)

\* C8: the payload's moving_time is the sum over the steps of the converted
\* durations: the number before "km" times 1000, before "m" times 60, before
\* "s" as it is, a bare number as it is; 0 for no steps. A call whose
\* credentials, name and steps are in order does send such a payload.
C8_MovingTimeIsSumOfDurations ==
    /\ \A d \in PostedData :
           AllUnitTagged(args.data.steps) =>
               d.moving_time = SumConverted(args.data.steps)
    /\ (tool = "post_events" /\ pc = "done" /\ ~AthleteMissing /\ ~ApiKeyMissing
            /\ args.name # <<>> /\ args.data.k = "dict" /\ args.data.has_steps
            /\ AllUnitTagged(args.data.steps)) => PostedData # {}
    /\ Converted(<<"1", "5", "m">>) = 900 /\ Converted(<<"3", "m">>) = 180
    /\ Converted(<<"3", "0", "s">>) = 30 /\ Converted(<<"1", "k", "m">>) = 1000
    /\ Converted(<<"4", "5">>) = 45

C8_Witness ==
    /\ pc = "await1" /\ tool = "post_events"
    /\ args.data.steps = <<Step(<<"1", "k", "m">>, <<>>),
                           Step(<<"1", "5", "m">>, <<>>)>>
    /\ requests[1].data.moving_time = 1900

\* C9: get_activities renders at most `limit` activities, those appended by
\* the supplementary fetch included.
C9_AtMostLimitRendered ==
    (pc = "done" /\ tool = "get_activities" /\ args.limit >= 0) =>
        Len(result.rendered) <= args.limit

C9_Witness ==
    /\ pc = "done" /\ tool = "get_activities"
    /\ Len(requests) = 2
    /\ args.limit > 0
    /\ Len(loc.activities) > args.limit
    /\ Len(result.rendered) = args.limit

\* The first fetch of get_activities has come back with a value that is no
\* error, on a call that filters unnamed activities and whose start date is
\* a calendar date.
FirstFetchSucceeded ==
    /\ pc = "got1" /\ tool = "get_activities" /\ ~args.include_unnamed
    /\ loc.start_date.k = "date"
    /\ gw.kind = "return" /\ ~("error" \in gw.val.keys)

\* The named activities left of the first fetch.
NamedLeft == Len(SelectSeq(NormalizeActivities(gw.val), HasRealName))

\* The request of the supplementary fetch: the window
\* [start - 60 days, start - 1 day] of the same athlete's activities.
IsSupplementary(q) ==
    /\ q.method = "GET"
    /\ q.url = requests[1].url
    /\ q.params.oldest.k = "date" /\ q.params.newest.k = "date"
    /\ PlusDays(q.params.oldest.ymd, 60) = loc.start_date.ymd
    /\ PlusDays(q.params.newest.ymd, 1) = loc.start_date.ymd
    /\ StrLess(q.params.newest.ymd, loc.start_date.ymd)

SupplementaryFetchFollows ==
    /\ pc' = "await2"
    /\ Len(requests) = 1
    /\ Len(requests') = 2
    /\ requests'[1] = requests[1]
    /\ IsSupplementary(requests'[2])

\* C10 as claimed: whenever the first fetch succeeds and fewer than `limit`
\* named activities remain, also when it yields no activities at all, one
\* supplementary fetch follows the first, for [start - 60 days, start - 1 day].
C10_SupplementaryFetchWheneverTooFew ==
    [][(FirstFetchSucceeded /\ NamedLeft < args.limit)
           => SupplementaryFetchFollows]_vars

\* C10 as amended: whenever the first fetch succeeds with at least one
\* activity mapping and fewer than `limit` named activities remain, exactly
\* one supplementary fetch follows the first, for
\* [start - 60 days, start - 1 day]; when the first fetch yields no activity
\* mapping at all, the handler returns without a supplementary fetch.
C10_SupplementaryFetchWhenSomeButTooFew ==
    [][/\ (FirstFetchSucceeded /\ NamedLeft < args.limit
             /\ NormalizeActivities(gw.val) # <<>>)
           => SupplementaryFetchFollows
       /\ (FirstFetchSucceeded /\ NormalizeActivities(gw.val) = <<>>)
           => (pc' = "done" /\ requests' = requests)
       /\ pc \in {"await2", "got2"} => requests' = requests]_vars

C10_Witness ==
    /\ pc = "await2" /\ tool = "get_activities"
    /\ args.start_date = DateOf(<<2024, 3, 1>>)
    /\ loc.activities = <<>>
    /\ Len(requests) = 2
    /\ requests[2].params.oldest = DateOf(<<2024, 1, 1>>)
    /\ requests[2].params.newest = DateOf(<<2024, 2, 29>>)

\* The supplementary fetch of get_activities has come back with something
\* that is no list: it failed, or its payload is of another kind.
SupplementaryGaveNoList ==
    /\ pc = "got2" /\ tool = "get_activities"
    /\ ~(gw.kind = "return" /\ gw.val.t = "list")

\* C11: when the supplementary fetch of get_activities errors or yields a
\* payload that is no list, the call does not fail: nothing is appended to
\* the activities kept of the first fetch, and the call returns what it
\* would return from those alone, cut to `limit`.
C11_SupplementaryErrorIsIgnored ==
    [][SupplementaryGaveNoList =>
           /\ pc' = "done"
           /\ result'.kind = "return"
           /\ loc'.activities = loc.activities
           /\ result' = ActivitiesText(args, loc, loc.activities)]_vars

\* The requests one invocation of tool `t` may issue.
RequestLimit(t) == IF t = "get_activities" THEN 2 ELSE 1

\* The texts the handlers return for a first request that gave an error.
FetchErrorTexts ==
    {"Error fetching activities: {error_message}",
     "Error fetching activity details: {error_message}",
     "Error fetching intervals: {error_message}",
     "Error fetching events: {error_message}",
     "Error fetching event details: {error_message}",
     "Error fetching events: {error_message} data used:{final_data}"}

\* The gateway gave the handler an error envelope.
GaveErrorEnvelope ==
    /\ pc \in {"got1", "got2"}
    /\ gw.kind = "return" /\ gw.val.t = "dict" /\ "error" \in gw.val.keys

\* The gateway call did not come back with a value at all.
GatewayRaised == pc \in {"got1", "got2"} /\ gw.kind = "raise"

ByIdPayloadArrived(t) ==
    /\ pc = "done" /\ tool = t /\ requests # <<>>
    /\ gw.kind = "return"
    /\ ~(gw.val.t = "dict" /\ "error" \in gw.val.keys)
    /\ Truthy(gw.val)

\* The first element of a list that has one.
FirstOfList(j) == IF j.t = "list" /\ j.items # <<>> THEN j.items[1] ELSE j

InvalidActivityText == "Invalid activity format for activity {activity_id}."
UnrecognizedIntervalsText ==
    "No interval data or unrecognized format for activity {activity_id}."

\* A mapping that holds interval data.
HoldsIntervals(j) ==
    j.t = "dict" /\ ("icu_intervals" \in j.keys \/ "icu_groups" \in j.keys)

\* get_activity_details on the payload: the first element of a non-empty
\* list stands for the list; what is no mapping is rejected, a mapping is
\* formatted.
DetailsUsesFirstElement ==
    ByIdPayloadArrived("get_activity_details") =>
        LET used == FirstOfList(gw.val)
        IN  IF used.t # "dict"
            THEN result.kind = "return" /\ result.text = InvalidActivityText
            ELSE /\ result.text # InvalidActivityText
                 /\ result.kind = "return" => result.rendered = <<used>>

\* C14 as claimed: get_activity_details and get_activity_intervals both take
\* the first element of a non-empty list for the payload; each returns its
\* literal error text when that value is no mapping, get_activity_intervals
\* also when the mapping has neither icu_intervals nor icu_groups; otherwise
\* the mapping is formatted.
C14_BothUseFirstElement ==
    /\ DetailsUsesFirstElement
    /\ ByIdPayloadArrived("get_activity_intervals") =>
           LET used == FirstOfList(gw.val)
           IN  /\ result.kind = "return"
               /\ IF HoldsIntervals(used)
                  THEN result.rendered = <<used>>
                  ELSE result.text = UnrecognizedIntervalsText

\* C14 as amended: get_activity_details takes the first element of a
\* non-empty list for the payload, returns its literal error text when that
\* value is no mapping and formats it otherwise; get_activity_intervals
\* takes the payload as it is, returns its literal error text when the
\* payload is no mapping (any list included) or has neither icu_intervals
\* nor icu_groups, and formats it otherwise.
C14_OnlyDetailsUsesFirstElement ==
    /\ DetailsUsesFirstElement
    /\ ByIdPayloadArrived("get_activity_intervals") =>
           /\ result.kind = "return"
           /\ IF HoldsIntervals(gw.val)
              THEN result.rendered = <<gw.val>>
              ELSE result.text = UnrecognizedIntervalsText

C14_Witness ==
    /\ pc = "done" /\ tool = "get_activity_details"
    /\ gw.kind = "return"
    /\ gw.val = JList(<<JDict({"id", "name"}, <<"Morning Ride">>),
                        JScalar(TRUE)>>)
    /\ result.rendered = <<JDict({"id", "name"}, <<"Morning Ride">>)>>

\* Two invocations of the same call that were answered the same.
SameCallSameAnswers(x, y) ==
    /\ x.pc = "done" /\ y.pc = "done"
    /\ x.tool = y.tool /\ x.args = y.args
    /\ x.received = y.received

============================================================================
